---- MODULE Spec2Model ----
(***************************************************************************)
(* A model of the data collectors of solar-energy-prediction:              *)
(*   src/src/collect_data/RTECollector.py      (generation API, OAuth2)    *)
(*   src/src/collect_data/WeatherCollector.py  (open-meteo archive API)    *)
(*   src/src/collect_data/timeutils.py         (date conversions)          *)
(* Datetimes are integers: a naive datetime is its wall clock in seconds   *)
(* since 1970-01-01T00:00:00, a date string "YYYY-MM-DD" is its day number *)
(* since 1970-01-01, an aware instant is its Unix time.                    *)
(***************************************************************************)
EXTENDS Integers, Sequences, FiniteSets, TLC

VARIABLES
    pc,               \* position of the running call
    caller,           \* which entry point is running
    exc,              \* the exception that ended the call, "none" if none
    start_date,       \* argument start_date of the running call
    end_date,         \* argument end_date of the running call
    delta,            \* slice_dates: delta / slice_date_range: step_in_hours
    current_date,     \* slice_dates: current_date / slice_date_range: current_timestamp
    dates,            \* slice_dates: the list built by the loop
    timestamp_list,   \* slice_date_range: the list built by the loop
    ret,              \* value returned by the running call
    access_token,     \* RTECollector.access_token
    token_expires_at, \* RTECollector.token_expires_at
    now,              \* datetime.now(), a naive wall clock
    idx,              \* save_data: 1-based position of the for loop (dates / stations)
    response,         \* the last HTTP response received
    result,           \* save_data: the dict fetch_data returned
    parts,            \* save_data: the list of parsed slices
    data,             \* save_data: the merged dict
    merge_i,          \* save_data: 1-based position of the merge loop in parts
    files,            \* the CSV files of save_dir, by name
    save_dir_exists,  \* whether save_dir exists
    outstanding,      \* HTTP requests sent and not yet answered
    http_log,         \* HTTP requests sent by the running save_data / fetch
    runs,             \* save_data calls started so far
    fetches,          \* fetch_data calls started so far
    merge_in,         \* the merge on its own: the list of parts given
    merge_stage,      \* the merge on its own: which of its three merges runs
    merged_all,       \* the merge on its own: the merge of the whole list
    station_key,      \* fetch_station_data: argument station_key
    granularity,      \* fetch_station_data: argument granularity
    script,           \* answers the weather API gives to the next requests
    sleeps,           \* cooldown sleeps taken by the running fetch
    all_results,      \* WeatherCollector.save_data: the dict of fetch_all_stations_data
    stations          \* WeatherCollector.stations, in the order of the dict

ctlVars == <<pc, caller, exc, ret>>
sliceVars == <<start_date, end_date, delta, current_date, dates, timestamp_list>>
tokenVars == <<access_token, token_expires_at>>
fetchVars == <<idx, response, result, outstanding, http_log, fetches>>
mergeVars == <<parts, data, merge_i>>
diskVars == <<files, save_dir_exists>>
rteVars == <<tokenVars, now, fetchVars, mergeVars, diskVars, runs>>

mergeRunVars == <<merge_in, merge_stage, merged_all>>
weatherVars == <<station_key, granularity, script, sleeps, all_results, stations>>
auxVars == <<mergeRunVars, weatherVars>>

vars == <<ctlVars, sliceVars, rteVars, auxVars>>

----------------------------------------------------------------------------
(* Time units and the Europe/Paris rules of 2020 used by timeutils.py.     *)

Hour == 60 * 60
Day == 24 * Hour

\* 2020-01-01T00:00:00 as a naive wall clock.
Jan1Wall == 18262 * Day
\* Day number of 2020-10-25, the day summer time ends in Europe/Paris.
DSTEndDay == 18262 + 298
\* Wall clocks 2020-03-29T03:00:00 and 2020-10-25T03:00:00: a naive wall clock
\* in between is read with UTC+2 (fold = 0), one outside with UTC+1.
DSTStartWall == 18350 * Day + 3 * Hour
DSTEndWall == DSTEndDay * Day + 3 * Hour
\* The same two transitions as Unix instants (01:00:00 UTC on both days).
DSTStartInstant == 18350 * Day + Hour
DSTEndInstant == DSTEndDay * Day + Hour

\* UTC offset zoneinfo gives a naive wall clock of 2020 (replace(tzinfo=...)).
ParisOffsetOfWall(w) ==
    IF DSTStartWall <= w /\ w < DSTEndWall THEN 2 * Hour ELSE Hour

\* UTC offset zoneinfo gives a Unix instant of 2020 (fromtimestamp(.., tz=...)).
ParisOffsetOfInstant(t) ==
    IF DSTStartInstant <= t /\ t < DSTEndInstant THEN 2 * Hour ELSE Hour

\* An ISO-8601 string: its wall clock and the UTC offset it spells, "none"
\* when it spells none (a date-only string).
IsoDate(day) == [wall |-> day * Day, off |-> "none"]

\* timeutils.date_to_int: fromisoformat(date).replace(tzinfo=Paris).timestamp().
\* replace() discards the offset the string spells and reads the wall clock
\* in Europe/Paris.
date_to_int(date) == date.wall - ParisOffsetOfWall(date.wall)

\* timeutils.int_to_date: the Europe/Paris calendar day of a Unix instant,
\* as a day number ("%Y-%m-%d").
int_to_date(t) == (t + ParisOffsetOfInstant(t)) \div Day

\* Python's seq[k] for a list, k possibly negative (counted from the end).
PyIndex(seq, k) == IF k < 0 THEN seq[Len(seq) + k + 1] ELSE seq[k + 1]

----------------------------------------------------------------------------
(* Bounds of the checked inputs.                                           *)

\* Naive datetimes given to RTECollector.slice_dates: Jan1Wall + k * GridStep.
MaxGrid == 14
GridStep == 9 * Day
DateGrid == {Jan1Wall + k * GridStep : k \in 0..MaxGrid}

\* A loop that cannot end by itself (delta <= 0) is followed this many rounds.
MaxSlices == 3

\* Date strings given to WeatherCollector.slice_date_range: the days from two
\* days before the end of summer time on.
MaxWDays == 4
WeatherDays == {DSTEndDay - 2 + k : k \in 0..MaxWDays}

\* timedelta(days=7), the default delta of slice_dates, and timedelta(days=120),
\* the delta save_data passes.
DefaultDelta == 7 * Day
SaveDelta == 120 * Day
Deltas == {0 - Day, 0, DefaultDelta, GridStep, SaveDelta}

\* step_in_hours of slice_date_range: its default and two other steps.
DefaultStepInHours == 24
StepsInHours == {12, DefaultStepInHours, 48}

----------------------------------------------------------------------------
(* Values of the RTE collector.                                            *)

\* Python's None for a datetime and for the access token.
NoneDate == 0 - 1
NoneToken == "None"
\* A key the server's JSON omits.
Absent == 0 - 1

\* expires_in when the token response omits it (line 62).
DefaultExpiresIn == 7200

\* Production types the generation API reports, in the order of its list.
TypeOrder == <<"SOLAR", "WIND">>
ProductionTypes == {TypeOrder[i] : i \in 1..Len(TypeOrder)}

\* At most MaxObs observations per production type in one response.
MaxObs == 1
\* A response's shape: the production types it lists, each with its number
\* of observations.
Shapes == UNION {[S -> 0..MaxObs] : S \in SUBSET ProductionTypes}
\* The shapes of the answers to save_data's requests: the API reports the
\* same hours for every production type it lists.
UniformShapes ==
    {sh \in Shapes : \A p, q \in DOMAIN sh : sh[p] = sh[q] /\ sh[p] > 0}

\* The k-th observation of a production type in the response to a request
\* starting at wall clock s: one hour long, ISO strings spelling an offset.
Content(s, pt, k) ==
    [start_date |-> [wall |-> s + (k - 1) * Hour, off |-> "+01:00"],
     end_date |-> [wall |-> s + k * Hour, off |-> "+01:00"],
     value |-> 10 * k + (IF pt = "WIND" THEN 5 ELSE 0)]

Item(s, pt, n) ==
    [production_type |-> pt, values |-> [k \in 1..n |-> Content(s, pt, k)]]

\* The JSON body of shape sh: {"actual_generations_per_production_type": [...]}.
Payload(sh, s) ==
    LET listed == SelectSeq(TypeOrder, LAMBDA pt : pt \in DOMAIN sh)
    IN [has_key |-> TRUE,
        items |-> [i \in 1..Len(listed) |-> Item(s, listed[i], sh[listed[i]])]]

\* A JSON body without the key actual_generations_per_production_type.
NoKeyPayload == [has_key |-> FALSE, items |-> <<>>]

\* What the generation endpoint may answer to a request starting at s: a
\* transport exception, a non-200 status, or 200 with a JSON body.
DataResponses(s) ==
    {[kind |-> "exception", status |-> 0, json |-> NoKeyPayload],
     [kind |-> "http", status |-> 500, json |-> NoKeyPayload],
     [kind |-> "http", status |-> 200, json |-> NoKeyPayload]}
    \cup {[kind |-> "http", status |-> 200, json |-> Payload(sh, s)] :
             sh \in UniformShapes}

\* What the token endpoint may answer: a transport exception, a non-200
\* status, 200 without access_token, or 200 with a token and maybe expires_in.
Tokens == {"", "tokA"}
ShortExpiresIn == Hour
TokenResponses ==
    {[kind |-> "exception", status |-> 0, has_token |-> FALSE,
      access_token |-> "", expires_in |-> Absent],
     [kind |-> "http", status |-> 401, has_token |-> FALSE,
      access_token |-> "", expires_in |-> Absent],
     [kind |-> "http", status |-> 200, has_token |-> FALSE,
      access_token |-> "", expires_in |-> Absent]}
    \cup {[kind |-> "http", status |-> 200, has_token |-> TRUE,
           access_token |-> t, expires_in |-> e] :
             t \in Tokens, e \in {Absent, ShortExpiresIn}}

\* No response received yet.
NoResponse ==
    [kind |-> "none", status |-> 0, has_token |-> FALSE, access_token |-> "",
     expires_in |-> Absent]

\* Time a blocking HTTP call may take.
Latencies == {0, Hour}

\* fetch_data is called at most MaxFetches times in all on one collector.
MaxFetches == 2

\* The wall clock at construction, and the dates given to save_data:
\* NowStart is 2020-07-19, the dates are 120 days apart from 2020-01-01 on.
NowStart == Jan1Wall + 200 * Day
SaveDates == {Jan1Wall, Jan1Wall + SaveDelta}

\* The dict fetch_data returns: the keys it has, and the values of the keys
\* the collector reads.
NoResult ==
    [keys |-> {}, success |-> FALSE, status_code |-> 0, error |-> "",
     data |-> NoKeyPayload]

\* WeatherCollector.stations as constructed (lines 20-26): the keys in the
\* order of the dict, each with its coordinates and name.
DefaultStations ==
    <<[key |-> "paris", lat |-> "48.8566", lon |-> "2.3522", name |-> "Paris"],
      [key |-> "lyon", lat |-> "45.7640", lon |-> "4.8357", name |-> "Lyon"],
      [key |-> "marseille", lat |-> "43.2965", lon |-> "5.3698",
       name |-> "Marseille"],
      [key |-> "toulouse", lat |-> "43.6047", lon |-> "1.4442",
       name |-> "Toulouse"],
      [key |-> "brest", lat |-> "48.3904", lon |-> "-4.4861", name |-> "Brest"]>>

\* The variables of the merge run on its own and of the weather fetch, while
\* neither runs.
AuxAtRest ==
    /\ merge_in = <<>>
    /\ merge_stage = 0
    /\ merged_all = <<>>
    /\ station_key = "none"
    /\ granularity = "none"
    /\ script = <<>>
    /\ sleeps = 0
    /\ all_results = <<>>
    /\ stations = DefaultStations

\* The RTE collector as constructed (lines 18-33), with no call running.
RteAtRest ==
    /\ access_token = NoneToken
    /\ token_expires_at = NoneDate
    /\ now = NowStart
    /\ idx = 0
    /\ response = NoResponse
    /\ result = NoResult
    /\ parts = <<>>
    /\ data = <<>>
    /\ merge_i = 0
    /\ files = <<>>
    /\ save_dir_exists = FALSE
    /\ outstanding = 0
    /\ http_log = <<>>
    /\ runs = 0
    /\ fetches = 0

----------------------------------------------------------------------------
(* RTECollector: token handling (lines 35-88).                             *)

\* is_token_valid (lines 78-82); "" and None are both falsy.
is_token_valid ==
    IF access_token = NoneToken \/ access_token = "" \/ token_expires_at = NoneDate
    THEN FALSE
    ELSE now < token_expires_at

\* A grant read off every answer with a status below 500 (< 500 for == 200).
TokenGranted_Below500(r) == r.kind = "http" /\ r.status < 500

\* A grant read off any answer of the token endpoint, its status unchecked.
TokenGranted_AnyAnswer(r) == r.kind = "http"

\* Whether get_oauth2_token returns True on response r (lines 57-76): status
\* 200 and a body holding access_token (a KeyError is caught at line 74).
TokenGranted(r) == r.kind = "http" /\ r.status = 200 /\ r.has_token

\* ExpiresIn without the default: a response omitting expires_in expires at once.
ExpiresIn_NoDefault(r) == IF r.expires_in = Absent THEN 0 ELSE r.expires_in

\* expires_in with its default (line 62).
ExpiresIn(r) == IF r.expires_in = Absent THEN DefaultExpiresIn ELSE r.expires_in

----------------------------------------------------------------------------
(* RTECollector.fetch_data (lines 90-159).                                 *)

\* The dict returned when ensure_valid_token fails (line 92).
AuthFailureResult ==
    [NoResult EXCEPT !.keys = {"error"}, !.error = "Can't get valid token"]

\* The dict built from the generation endpoint's answer (lines 125-159).
FetchResult(r) ==
    IF r.kind = "exception"
    THEN [NoResult EXCEPT !.keys = {"error", "success"}, !.error = "exception"]
    ELSE IF r.status = 200
    THEN [NoResult EXCEPT
            !.keys = {"status_code", "url", "headers", "params", "success",
                      "data", "data_points"},
            !.success = TRUE, !.status_code = 200, !.data = r.json]
    ELSE [NoResult EXCEPT
            !.keys = {"status_code", "url", "headers", "params", "success",
                      "error"},
            !.status_code = r.status, !.error = "response.text"]

\* fetch_data is entered for slice idx (line 187).  ensure_valid_token (line
\* 91): with a valid token the GET of line 123 is sent, otherwise the POST of
\* line 54.  dates[idx] are datetimes, so the defaults of lines 95-100 are
\* not taken.
FetchDataBegin ==
    /\ pc = "fetch_data"
    /\ fetches < MaxFetches
    /\ fetches' = fetches + 1
    /\ outstanding' = outstanding + 1
    /\ IF is_token_valid
       THEN /\ pc' = "data_wait"
            /\ http_log' = Append(http_log, <<"GET", idx>>)
       ELSE /\ pc' = "token_wait"
            /\ http_log' = Append(http_log, <<"POST", idx>>)
    /\ UNCHANGED <<caller, exc, ret, sliceVars, tokenVars, now, idx, response,
                   result, mergeVars, diskVars, runs, auxVars>>

\* The token endpoint answers with r after lat seconds (lines 54-76).  A
\* granted token is stored with its expiry and fetch_data goes on to its GET
\* (line 123); otherwise fetch_data returns the dict of line 92 to save_data.
TokenResponse(r, lat) ==
    /\ pc = "token_wait"
    /\ now' = now + lat
    /\ response' = r
    /\ IF TokenGranted(r)
       THEN /\ access_token' = r.access_token
            /\ token_expires_at' = now' + ExpiresIn(r)
            /\ pc' = "data_wait"
            /\ http_log' = Append(http_log, <<"GET", idx>>)
            /\ UNCHANGED <<outstanding, result>>
       ELSE /\ result' = AuthFailureResult
            /\ pc' = "parse_result"
            /\ outstanding' = outstanding - 1
            /\ UNCHANGED <<tokenVars, http_log>>
    /\ UNCHANGED <<caller, exc, ret, sliceVars, idx, fetches, mergeVars,
                   diskVars, runs, auxVars>>

\* The generation endpoint answers with r after lat seconds; fetch_data
\* returns its dict to save_data (lines 123-159).
DataResponse(r, lat) ==
    /\ pc = "data_wait"
    /\ now' = now + lat
    /\ response' = r
    /\ outstanding' = outstanding - 1
    /\ result' = FetchResult(r)
    /\ pc' = "parse_result"
    /\ UNCHANGED <<caller, exc, ret, sliceVars, tokenVars, idx, http_log,
                   fetches, mergeVars, diskVars, runs, auxVars>>

----------------------------------------------------------------------------
(* RTECollector.slice_dates                                                *)

\* The loop condition `while current_date <= end_date` with `<` instead.
SliceDatesCond_Strict == current_date < end_date

\* RTECollector.slice_dates, line 166: the loop condition.
SliceDatesCond == current_date <= end_date

\* One round of the loop (lines 166-173).  A loop with delta <= 0 never ends;
\* it is followed for MaxSlices rounds.
SliceDatesLoop ==
    /\ pc = "slice_dates"
    /\ SliceDatesCond
    /\ (delta > 0 \/ Len(dates) < MaxSlices)
    /\ dates' = Append(dates, <<current_date, current_date + delta>>)
    /\ current_date' = current_date + delta
    /\ UNCHANGED <<ctlVars, start_date, end_date, delta, timestamp_list, rteVars, auxVars>>

\* The loop ends and slice_dates returns dates (line 174): to a direct caller,
\* or to save_data (line 184), which sets parts = [] and enters its for loop
\* (lines 185-186), going on to line 195 when dates is empty.
SliceDatesReturn ==
    /\ pc = "slice_dates"
    /\ ~SliceDatesCond
    /\ IF caller = "slice_dates"
       THEN /\ pc' = "returned"
            /\ ret' = dates
            /\ UNCHANGED <<idx, parts>>
       ELSE /\ pc' = IF dates = <<>> THEN "merge" ELSE "fetch_data"
            /\ idx' = 1
            /\ parts' = <<>>
            /\ UNCHANGED ret
    /\ UNCHANGED <<caller, exc, sliceVars, tokenVars, now, response, result, outstanding,
                   http_log, fetches, data, merge_i, diskVars, runs, auxVars>>

----------------------------------------------------------------------------
(* WeatherCollector.slice_date_range                                       *)

\* One round of the loop (lines 139-141).
SliceDateRangeLoop ==
    /\ pc = "slice_date_range"
    /\ current_date <= date_to_int(IsoDate(end_date))
    /\ timestamp_list' = Append(timestamp_list, int_to_date(current_date))
    /\ current_date' = current_date + delta * 60 * 60
    /\ UNCHANGED <<ctlVars, start_date, end_date, delta, dates, rteVars, auxVars>>

\* The list comprehension of lines 142-143:
\* [(timestamp_list[i-1], timestamp_list[i-1]) for i in range(len - 1)].
SliceDateRangePairs(tl) ==
    [i \in 1..(IF Len(tl) = 0 THEN 0 ELSE Len(tl) - 1) |->
        <<PyIndex(tl, i - 2), PyIndex(tl, i - 2)>>]

\* The loop ends and slice_date_range returns the pairs (line 144).
SliceDateRangeReturn ==
    /\ pc = "slice_date_range"
    /\ ~(current_date <= date_to_int(IsoDate(end_date)))
    /\ pc' = "returned"
    /\ ret' = SliceDateRangePairs(timestamp_list)
    /\ UNCHANGED <<caller, exc, sliceVars, rteVars, auxVars>>

----------------------------------------------------------------------------
(* RTECollector.parse_result (lines 216-243).                              *)

\* The dict built for one item (lines 224-240).
ProductionData(values) ==
    [start |-> [i \in 1..Len(values) |-> date_to_int(values[i].start_date)],
     end |-> [i \in 1..Len(values) |-> date_to_int(values[i].end_date)],
     values |-> [i \in 1..Len(values) |-> values[i].value]]

\* Whether line 222 raises KeyError: the dict has no 'data' (only a result
\* of status 200 has), or the JSON has no list of production types.
ParseRaises(res) == "data" \notin res.keys \/ ~res.data.has_key

\* The dict parse_result returns: one entry per production type, that of the
\* last item of the type (line 242 overwrites).
parse_result(res) ==
    LET items == res.data.items
        last(pt) == CHOOSE i \in 1..Len(items) :
                        /\ items[i].production_type = pt
                        /\ \A j \in (i + 1)..Len(items) : items[j].production_type # pt
    IN [pt \in {items[i].production_type : i \in 1..Len(items)} |->
            ProductionData(items[last(pt)].values)]

\* The loop body going on to the next slice after every parsed slice but the
\* first: the loop is left after one slice.
NextAfterParse_OneSlice == "merge"

\* Where the for loop of lines 186-193 goes after parsing slice idx.
NextAfterParse == IF idx < Len(dates) THEN "fetch_data" ELSE "merge"

\* save_data parses the dict of slice idx and appends it to parts (lines
\* 191-193); a KeyError of parse_result ends save_data.
ParseResult ==
    /\ pc = "parse_result"
    /\ IF ParseRaises(result)
       THEN /\ pc' = "crashed"
            /\ exc' = "KeyError"
            /\ UNCHANGED <<idx, parts>>
       ELSE /\ parts' = Append(parts, parse_result(result))
            /\ pc' = NextAfterParse
            /\ idx' = IF pc' = "fetch_data" THEN idx + 1 ELSE idx
            /\ UNCHANGED exc
    /\ UNCHANGED <<caller, ret, sliceVars, tokenVars, now, response, result, outstanding,
                   http_log, fetches, data, merge_i, diskVars, runs, auxVars>>

----------------------------------------------------------------------------
(* The merge of save_data (lines 195-205).                                 *)

EmptyProductionData == [start |-> <<>>, end |-> <<>>, values |-> <<>>]

\* The merge of one part that keeps only the part's arrays for a type the
\* merged dict already has (= instead of +=).
MergePart_Overwrite(d, part) ==
    [pt \in DOMAIN d \cup DOMAIN part |->
        IF pt \in DOMAIN part THEN part[pt] ELSE d[pt]]

\* The merge of one part that appends only the elements the merged array
\* does not hold yet (a deduplicating += ).
MergePart_Dedup(d, part) ==
    [pt \in DOMAIN d \cup DOMAIN part |->
        IF pt \in DOMAIN part
        THEN LET base == IF pt \in DOMAIN d THEN d[pt] ELSE EmptyProductionData
                 fresh(old, new) ==
                    SelectSeq(new, LAMBDA x : \A j \in 1..Len(old) : old[j] # x)
             IN [start |-> base.start \o fresh(base.start, part[pt].start),
                 end |-> base.end \o fresh(base.end, part[pt].end),
                 values |-> base.values \o fresh(base.values, part[pt].values)]
        ELSE d[pt]]

\* One part merged into the dict d (lines 197-205).
MergePart(d, part) ==
    [pt \in DOMAIN d \cup DOMAIN part |->
        IF pt \in DOMAIN part
        THEN LET base == IF pt \in DOMAIN d THEN d[pt] ELSE EmptyProductionData
             IN [start |-> base.start \o part[pt].start,
                 end |-> base.end \o part[pt].end,
                 values |-> base.values \o part[pt].values]
        ELSE d[pt]]

\* The merge loop starting at the third part (parts[2:] for parts[1:]).
MergeFirst_Skip == 2 + 1

\* 1-based position of the first part the loop of line 196 merges (parts[1:]).
MergeFirst == 2

\* Where control goes when the merge loop is over: save_data goes on to its
\* writer (line 207); a merge run on its own is finished.
AfterMerge == IF caller = "save_data" THEN "write" ELSE "merged"

\* data = parts[0] (line 195); IndexError when no slice was parsed.
MergeBegin ==
    /\ pc = "merge"
    /\ IF parts = <<>>
       THEN /\ pc' = "crashed"
            /\ exc' = "IndexError"
            /\ UNCHANGED <<data, merge_i>>
       ELSE /\ data' = parts[1]
            /\ merge_i' = MergeFirst
            /\ pc' = IF merge_i' <= Len(parts) THEN "merge_loop" ELSE AfterMerge
            /\ UNCHANGED exc
    /\ UNCHANGED <<caller, ret, sliceVars, tokenVars, now, fetchVars, parts,
                   diskVars, runs, auxVars>>

\* One round of the loop of line 196.  data is the object parts[0], which
\* the += of line 205 extends in place.
MergeLoop ==
    /\ pc = "merge_loop"
    /\ merge_i <= Len(parts)
    /\ data' = MergePart(data, parts[merge_i])
    /\ parts' = [parts EXCEPT ![1] = data']
    /\ merge_i' = merge_i + 1
    /\ pc' = IF merge_i' <= Len(parts) THEN "merge_loop" ELSE AfterMerge
    /\ UNCHANGED <<caller, exc, ret, sliceVars, tokenVars, now, fetchVars,
                   diskVars, runs, auxVars>>

----------------------------------------------------------------------------
(* The writer of save_data (lines 207-214).                                *)

\* The file name f"{production_type}.csv".
FileName(pt) == <<pt, ".csv">>

\* DataFrame(values).to_csv(path): a header row, then one row per index with
\* the index in the first column.
CsvText(values) ==
    [header |-> <<"", "start", "end", "values">>,
     rows |-> [i \in 1..Len(values.start) |->
                 <<i - 1, values.start[i], values.end[i], values.values[i]>>]]

\* Every production type of data is written to its file, replacing a file
\* of that name; save_dir is made if missing (lines 207-214).
WriteFiles ==
    /\ pc = "write"
    /\ files' = [f \in DOMAIN files \cup {FileName(pt) : pt \in DOMAIN data} |->
                    IF \E pt \in DOMAIN data : f = FileName(pt)
                    THEN CsvText(data[CHOOSE pt \in DOMAIN data : f = FileName(pt)])
                    ELSE files[f]]
    /\ save_dir_exists' = (save_dir_exists \/ DOMAIN data # {})
    /\ pc' = "done"
    /\ UNCHANGED <<caller, exc, ret, sliceVars, tokenVars, now, fetchVars,
                   mergeVars, runs, auxVars>>

----------------------------------------------------------------------------
(* RTECollector.save_data, its entry (lines 176-184).                      *)

\* save_data(s, e) is called on the collector, idle or done with an earlier
\* call: the defaults of lines 177-181, then slice_dates with 120 days.  A
\* further call is followed while fetch_data calls remain.
SaveData(s, e) ==
    /\ pc \in {"idle", "done"}
    /\ fetches < MaxFetches
    /\ runs' = runs + 1
    /\ caller' = "save_data"
    /\ start_date' = IF s = NoneDate THEN now - 30 * Day ELSE s
    /\ end_date' = IF e = NoneDate THEN now - Day ELSE e
    /\ delta' = SaveDelta
    /\ current_date' = start_date'
    /\ dates' = <<>>
    /\ pc' = "slice_dates"
    /\ idx' = 0
    /\ response' = NoResponse
    /\ result' = NoResult
    /\ parts' = <<>>
    /\ data' = <<>>
    /\ merge_i' = 0
    /\ http_log' = <<>>
    /\ UNCHANGED <<exc, ret, timestamp_list, tokenVars, now, outstanding,
                   fetches, diskVars, auxVars>>

\* A collector just constructed (lines 18-33), at the wall clock NowStart.
InitRTE ==
    /\ pc = "idle"
    /\ caller = "none"
    /\ exc = "none"
    /\ ret = <<>>
    /\ start_date = NoneDate
    /\ end_date = NoneDate
    /\ delta = 0
    /\ current_date = NoneDate
    /\ dates = <<>>
    /\ timestamp_list = <<>>
    /\ access_token = NoneToken
    /\ token_expires_at = NoneDate
    /\ now = NowStart
    /\ idx = 0
    /\ response = NoResponse
    /\ result = NoResult
    /\ parts = <<>>
    /\ data = <<>>
    /\ merge_i = 0
    /\ files = <<>>
    /\ save_dir_exists = FALSE
    /\ outstanding = 0
    /\ http_log = <<>>
    /\ runs = 0
    /\ fetches = 0
    /\ AuxAtRest

\* The answers the generation endpoint may give to the request in flight,
\* the one for the slice starting at dates[idx][0].
PendingDataResponses ==
    IF pc = "data_wait" THEN DataResponses(dates[idx][1]) ELSE {}

NextRTE ==
    \/ \E s \in SaveDates \cup {NoneDate}, e \in SaveDates \cup {NoneDate} :
          SaveData(s, e)
    \/ SliceDatesLoop
    \/ SliceDatesReturn
    \/ FetchDataBegin
    \/ \E r \in TokenResponses, lat \in Latencies : TokenResponse(r, lat)
    \/ \E r \in PendingDataResponses, lat \in Latencies : DataResponse(r, lat)
    \/ ParseResult
    \/ MergeBegin
    \/ MergeLoop
    \/ WriteFiles

SpecRTE == InitRTE /\ [][NextRTE]_vars

----------------------------------------------------------------------------
(* The slicers on their own: Init draws the arguments of one call.         *)

InitSliceDates ==
    /\ pc = "slice_dates"
    /\ caller = "slice_dates"
    /\ exc = "none"
    /\ start_date \in DateGrid
    /\ end_date \in DateGrid
    /\ delta \in Deltas
    /\ current_date = start_date
    /\ dates = <<>>
    /\ timestamp_list = <<>>
    /\ ret = <<>>
    /\ RteAtRest
    /\ AuxAtRest

InitSliceDateRange ==
    /\ pc = "slice_date_range"
    /\ caller = "slice_date_range"
    /\ exc = "none"
    /\ start_date \in WeatherDays
    /\ end_date \in WeatherDays
    /\ delta \in StepsInHours
    /\ current_date = date_to_int(IsoDate(start_date))
    /\ dates = <<>>
    /\ timestamp_list = <<>>
    /\ ret = <<>>
    /\ RteAtRest
    /\ AuxAtRest

InitSlice == InitSliceDates \/ InitSliceDateRange

NextSlice ==
    \/ SliceDatesLoop
    \/ SliceDatesReturn
    \/ SliceDateRangeLoop
    \/ SliceDateRangeReturn

SpecSlice == InitSlice /\ [][NextSlice]_vars

----------------------------------------------------------------------------
(* The merge of save_data on its own: Init draws the list of parts and the *)
(* loop of lines 195-205 merges the whole list, then the list without its  *)
(* last part, then that result with the last part.                         *)

\* The lists of parts drawn hold at most MaxParts parts, each with at most
\* MaxMergeObs observations per production type.
MaxParts == 3
MaxMergeObs == 2
MergeShapes == UNION {[S -> 1..MaxMergeObs] : S \in SUBSET ProductionTypes}

\* What parse_result returns for the 200 answer of shape sh to the i-th
\* 120-day slice from 2020-01-01 on.
ParsedSlice(sh, i) ==
    parse_result(FetchResult([kind |-> "http", status |-> 200,
        json |-> Payload(sh, Jan1Wall + (i - 1) * SaveDelta)]))

ShapeLists == UNION {[1..n -> MergeShapes] : n \in 0..MaxParts}

InitMerge ==
    /\ \E shs \in ShapeLists :
          merge_in = [i \in 1..Len(shs) |-> ParsedSlice(shs[i], i)]
    /\ parts = merge_in
    /\ data = <<>>
    /\ merge_i = 0
    /\ merge_stage = 1
    /\ merged_all = <<>>
    /\ pc = "merge"
    /\ caller = "merge"
    /\ exc = "none"
    /\ ret = <<>>
    /\ start_date = NoneDate
    /\ end_date = NoneDate
    /\ delta = 0
    /\ current_date = NoneDate
    /\ dates = <<>>
    /\ timestamp_list = <<>>
    /\ access_token = NoneToken
    /\ token_expires_at = NoneDate
    /\ now = NowStart
    /\ idx = 0
    /\ response = NoResponse
    /\ result = NoResult
    /\ files = <<>>
    /\ save_dir_exists = FALSE
    /\ outstanding = 0
    /\ http_log = <<>>
    /\ runs = 0
    /\ fetches = 0
    /\ station_key = "none"
    /\ granularity = "none"
    /\ script = <<>>
    /\ sleeps = 0
    /\ all_results = <<>>
    /\ stations = DefaultStations

\* The merge of the whole list is kept, and the list without its last part
\* (fresh copies of the parts drawn) is merged.
MergeFront ==
    /\ pc = "merged"
    /\ merge_stage = 1
    /\ Len(merge_in) >= 2
    /\ merged_all' = data
    /\ parts' = SubSeq(merge_in, 1, Len(merge_in) - 1)
    /\ merge_stage' = 2
    /\ pc' = "merge"
    /\ UNCHANGED <<caller, exc, ret, sliceVars, tokenVars, now, fetchVars, data,
                   merge_i, diskVars, runs, merge_in, weatherVars>>

\* The merge of the front of the list is merged with the last part.
MergeFrontWithLast ==
    /\ pc = "merged"
    /\ merge_stage = 2
    /\ parts' = <<data, merge_in[Len(merge_in)]>>
    /\ merge_stage' = 3
    /\ pc' = "merge"
    /\ UNCHANGED <<caller, exc, ret, sliceVars, tokenVars, now, fetchVars, data,
                   merge_i, diskVars, runs, merge_in, merged_all, weatherVars>>

\* The last merge is returned.
MergeReturn ==
    /\ pc = "merged"
    /\ merge_stage = 3
    /\ ret' = data
    /\ pc' = "returned"
    /\ UNCHANGED <<caller, exc, sliceVars, rteVars, auxVars>>

NextMerge ==
    \/ MergeBegin
    \/ MergeLoop
    \/ MergeFront
    \/ MergeFrontWithLast
    \/ MergeReturn

SpecMerge == InitMerge /\ [][NextMerge]_vars

----------------------------------------------------------------------------
(* WeatherCollector.fetch_station_data (lines 55-131) on its own.          *)

\* The keys of self.stations, and the keys given to fetch_station_data:
\* those self.stations is constructed with and "nice", which is a key only
\* once add_custom_station has added it.
Stations == {stations[i].key : i \in 1..Len(stations)}
StationKeys == {DefaultStations[i].key : i \in 1..Len(DefaultStations)} \cup {"nice"}

\* The stations given to add_custom_station: a new key, and a key that
\* self.stations already has, with another name.
CustomStations ==
    {[key |-> "nice", lat |-> "43.7102", lon |-> "7.262", name |-> "Nice"],
     [key |-> "paris", lat |-> "48.8566", lon |-> "2.3522", name |-> "Paname"]}

\* self.stations[key] = {...} (lines 296-300): the entry of a key the dict
\* has is replaced where it is, a new key is added at the end.
SetStation(sts, c) ==
    IF \E i \in 1..Len(sts) : sts[i].key = c.key
    THEN [i \in 1..Len(sts) |-> IF sts[i].key = c.key THEN c ELSE sts[i]]
    ELSE Append(sts, c)

\* add_custom_station(key, lat, lon, name) (lines 292-301) is called on a
\* collector that is idle or has returned from add_custom_station or from
\* save_data.
AddCustomStation(key, lat, lon, name) ==
    /\ \/ pc = "idle"
       \/ pc = "returned" /\ caller \in {"add_custom_station", "weather_save_data"}
    /\ stations' = SetStation(stations, [key |-> key, lat |-> lat, lon |-> lon,
                                         name |-> name])
    /\ caller' = "add_custom_station"
    /\ pc' = "returned"
    /\ UNCHANGED <<exc, ret, sliceVars, rteVars, mergeRunVars, station_key,
                   granularity, script, sleeps, all_results>>
Granularities == {"hourly", "daily"}

\* The JSON of a 200 answer: which of the sections 'hourly' and 'daily' it
\* has, and the length of their 'time' lists, at most MaxPoints.
MaxPoints == 2
WeatherJsons ==
    {[sections |-> S, n |-> k] : S \in {{}, {"hourly"}, {"daily"}}, k \in 1..MaxPoints}
NoJson == [sections |-> {}, n |-> 0]

\* What the weather API may answer: a transport exception, 429 (rate
\* limited), another non-200 status, or 200 with a JSON body.
WeatherResponses ==
    {[kind |-> "exception", status |-> 0, json |-> NoJson],
     [kind |-> "http", status |-> 429, json |-> NoJson],
     [kind |-> "http", status |-> 500, json |-> NoJson]}
    \cup {[kind |-> "http", status |-> 200, json |-> j] : j \in WeatherJsons}

\* The answers the API would give to the first MaxScript requests of a call.
MaxScript == 2
Scripts == [1..MaxScript -> WeatherResponses]

\* The date strings given to fetch_station_data: 2020-10-23 and 2020-10-25.
FetchDays == {DSTEndDay - 2, DSTEndDay}

NoWeatherResult ==
    [keys |-> {}, success |-> FALSE, status_code |-> 0, error |-> "",
     data |-> NoJson, data_points |-> 0]

\* The dict built from the API's answer r (lines 97-131).
StationResult(r, g) ==
    IF r.kind = "exception"
    THEN [NoWeatherResult EXCEPT
            !.keys = {"error", "success", "station_key"}, !.error = "exception"]
    ELSE IF r.status = 200
    THEN [NoWeatherResult EXCEPT
            !.keys = {"status_code", "url", "station_key", "station_name",
                      "granularity", "success", "data", "data_points"},
            !.success = TRUE, !.status_code = 200, !.data = r.json,
            !.data_points = IF g \in r.json.sections THEN r.json.n ELSE 0]
    ELSE [NoWeatherResult EXCEPT
            !.keys = {"status_code", "url", "station_key", "station_name",
                      "granularity", "success", "error"},
            !.status_code = r.status, !.error = "response.text"]

\* fetch_station_data(sk, s, e, g) is called, the API being about to answer
\* with sc: an unknown station returns at once (lines 71-72), otherwise the
\* GET of line 95 is sent.
FetchStationData(sk, s, e, g, sc) ==
    /\ pc = "idle" \/ (pc = "returned" /\ caller = "add_custom_station")
    /\ caller' = "fetch_station_data"
    /\ station_key' = sk
    /\ start_date' = s
    /\ end_date' = e
    /\ granularity' = g
    /\ script' = sc
    /\ IF sk \notin Stations
       THEN /\ ret' = [NoWeatherResult EXCEPT !.keys = {"error", "success"},
                                             !.error = "Station non reconnue"]
            /\ pc' = "returned"
            /\ UNCHANGED <<outstanding, http_log>>
       ELSE /\ pc' = "station_wait"
            /\ outstanding' = outstanding + 1
            /\ http_log' = Append(http_log, <<"GET", sk>>)
            /\ UNCHANGED ret
    /\ UNCHANGED <<exc, delta, current_date, dates, timestamp_list, tokenVars,
                   now, idx, response, result, fetches, mergeVars, diskVars,
                   runs, mergeRunVars, sleeps, all_results, stations>>

\* The API answers the request in flight and fetch_station_data returns its
\* dict (lines 97-131).
StationResponse ==
    /\ pc = "station_wait"
    /\ response' = script[Len(http_log)]
    /\ outstanding' = outstanding - 1
    /\ ret' = StationResult(response', granularity)
    /\ pc' = "returned"
    /\ UNCHANGED <<caller, exc, sliceVars, tokenVars, now, idx, result, http_log,
                   fetches, mergeVars, diskVars, runs, auxVars>>

\* A collector just constructed (lines 15-53).
InitWeather ==
    /\ pc = "idle"
    /\ caller = "none"
    /\ exc = "none"
    /\ ret = NoWeatherResult
    /\ start_date = NoneDate
    /\ end_date = NoneDate
    /\ delta = 0
    /\ current_date = NoneDate
    /\ dates = <<>>
    /\ timestamp_list = <<>>
    /\ RteAtRest
    /\ AuxAtRest

NextWeather ==
    \/ /\ pc = "idle" \/ (pc = "returned" /\ caller = "add_custom_station")
       /\ \E sk \in StationKeys, s \in FetchDays, e \in FetchDays,
             g \in Granularities, sc \in Scripts :
                FetchStationData(sk, s, e, g, sc)
    \/ /\ pc \in {"idle", "returned"}
       /\ \E c \in CustomStations : AddCustomStation(c.key, c.lat, c.lon, c.name)
    \/ StationResponse

SpecWeather == InitWeather /\ [][NextWeather]_vars


----------------------------------------------------------------------------
(* The two fetchers side by side: from construction either save_data of    *)
(* the RTE collector runs, calling fetch_data once per slice, or           *)
(* fetch_station_data of the weather collector is called.                  *)

NextFetchers ==
    \/ NextRTE
    \/ NextWeather

SpecFetchers == InitRTE /\ [][NextFetchers]_vars

----------------------------------------------------------------------------
(* WeatherCollector.save_data (lines 146-284).                             *)

\* self.stations.keys() in the order of the dict (line 172).
StationOrder == [i \in 1..Len(stations) |-> stations[i].key]

\* self.stations[station_key]['name'] (line 213).
StationName(sk) ==
    stations[CHOOSE i \in 1..Len(stations) : stations[i].key = sk].name

\* self.hourly_params (lines 38-48) and self.daily_params (lines 29-36).
hourly_params ==
    <<"direct_normal_irradiance", "cloud_cover", "sunshine_duration",
      "precipitation", "surface_pressure", "relative_humidity_2m",
      "temperature_2m", "wind_speed_10m", "shortwave_radiation">>
daily_params ==
    <<"temperature_2m_mean", "temperature_2m_max", "temperature_2m_min",
      "precipitation_sum", "wind_speed_10m_max", "wind_direction_10m_dominant">>

\* The metrics asked for (lines 84-87): the API's table has them as columns.
ParamsOf(g) == IF g = "hourly" THEN hourly_params ELSE daily_params

\* The 'time' list of the table the API returns to a request starting at day
\* s: n naive local times from midnight on, one per hour or per day.
TimeList(g, s, n) ==
    [k \in 1..n |-> IF g = "hourly" THEN s * Day + (k - 1) * Hour
                    ELSE (s + k - 1) * Day]

\* The value the API reports for the j-th metric asked for at the time t.
MetricValue(j, t) == t + j

\* A DataFrame: its columns and its rows; pd.DataFrame() has neither.
EmptyDataFrame == [columns |-> <<>>, rows |-> <<>>]

\* df.empty.
IsEmpty(df) == df.columns = <<>> \/ df.rows = <<>>

\* process_station_data (lines 178-225) on the dict raw that
\* fetch_station_data(sk, s, e, g) returned: raw['station_key'] is sk and
\* raw['granularity'] is g (lines 99-103).
process_station_data(raw, sk, g, s) ==
    IF ~("success" \in raw.keys /\ raw.success) \/ "data" \notin raw.keys
    THEN EmptyDataFrame
    ELSE IF (g = "hourly" /\ "hourly" \in raw.data.sections)
              \/ (g = "daily" /\ "daily" \in raw.data.sections)
    THEN LET time_data == TimeList(g, s, raw.data.n)
             params == ParamsOf(g)
         IN [columns |-> <<"datetime", "timestamp", "station", "station_name">>
                            \o params,
             rows |-> [k \in 1..Len(time_data) |->
                         <<time_data[k],
                           date_to_int([wall |-> time_data[k], off |-> "none"]),
                           sk, StationName(sk)>>
                         \o [j \in 1..Len(params) |->
                               MetricValue(j, time_data[k])]]]
    ELSE EmptyDataFrame

\* The file name f"{station_key}_{granularity}.csv" (line 265).
WeatherFileName(sk, g) == <<sk, "_", g, ".csv">>

\* df.to_csv(filepath) appending to a file that exists (mode='a').
to_csv_Append(fs, path, df) ==
    [f \in DOMAIN fs \cup {path} |->
        IF f # path THEN fs[f]
        ELSE IF path \in DOMAIN fs
        THEN [header |-> fs[path].header, rows |-> fs[path].rows \o df.rows]
        ELSE [header |-> df.columns, rows |-> df.rows]]

\* df.to_csv(filepath, index=False) on the files fs (line 269): the file is
\* created or truncated, then the header row and the rows are written.
to_csv(fs, path, df) ==
    [f \in DOMAIN fs \cup {path} |->
        IF f = path THEN [header |-> df.columns, rows |-> df.rows] ELSE fs[f]]

\* Whether the loop of lines 255-284 writes a file for the station.
Saves(res, sk, g, s) ==
    /\ "success" \in res.keys /\ res.success
    /\ ~IsEmpty(process_station_data(res, sk, g, s))

\* The files after the loop of lines 255-284 has gone through the stations
\* from the i-th on.
RECURSIVE WriteStations(_, _, _, _, _)
WriteStations(fs, res, g, s, i) ==
    IF i > Len(StationOrder) THEN fs
    ELSE LET sk == StationOrder[i]
         IN WriteStations(
              IF Saves(res[sk], sk, g, s)
              THEN to_csv(fs, WeatherFileName(sk, g),
                          process_station_data(res[sk], sk, g, s))
              ELSE fs,
              res, g, s, i + 1)

\* successful_saves (lines 253, 273).
SuccessfulSaves(res, g, s) ==
    Cardinality({sk \in DOMAIN res : Saves(res[sk], sk, g, s)})

\* The answers the API gives to the requests of one save_data run for
\* granularity g, one per station: status 500, a body without the section
\* asked for, or a table of 0..MaxPoints points.  Either every station gets
\* the same answer, or every station gets a table of the same number of
\* points but the first or the last one, which gets another answer.
AnswerTable(g, n) ==
    [kind |-> "http", status |-> 200, json |-> [sections |-> {g}, n |-> n]]
SaveAnswers(g) ==
    {[kind |-> "http", status |-> 500, json |-> NoJson],
     [kind |-> "http", status |-> 200, json |-> [sections |-> {}, n |-> 1]]}
    \cup {AnswerTable(g, n) : n \in 0..MaxPoints}
SaveScripts(g) ==
    {[i \in 1..Len(StationOrder) |-> a] : a \in SaveAnswers(g)}
    \cup {[i \in 1..Len(StationOrder) |-> IF i = k THEN b ELSE AnswerTable(g, n)] :
             n \in 1..MaxPoints, b \in SaveAnswers(g), k \in {1, Len(StationOrder)}}

\* The dates given to save_data: none (the defaults) or 2020-10-25 twice.
SaveDayRanges == {<<NoneDate, NoneDate>>, <<DSTEndDay, DSTEndDay>>}

\* save_data is run at most twice on one collector.
SaveRuns == {1, 2}

\* save_data(s, e, g) is called on a collector that is idle or has returned
\* from an earlier save_data: the defaults of lines 235-241, then
\* fetch_all_stations_data starts its loop (lines 171-172).
WeatherSaveData(s, e, g, sc) ==
    /\ \/ pc = "idle"
       \/ pc = "returned" /\ caller \in {"add_custom_station", "weather_save_data"}
    /\ runs + 1 \in SaveRuns
    /\ runs' = runs + 1
    /\ caller' = "weather_save_data"
    /\ start_date' = IF s = NoneDate THEN (now - 5 * Day) \div Day ELSE s
    /\ end_date' = IF e = NoneDate THEN (now - Day) \div Day ELSE e
    /\ granularity' = g
    /\ script' = sc
    /\ all_results' = <<>>
    /\ idx' = 1
    /\ http_log' = <<>>
    /\ response' = NoResponse
    /\ station_key' = "none"
    /\ pc' = "station_fetch"
    /\ UNCHANGED <<exc, ret, delta, current_date, dates, timestamp_list,
                   tokenVars, now, result, outstanding, fetches,
                   mergeVars, diskVars, mergeRunVars, sleeps, stations>>

\* fetch_station_data is called for the idx-th station (line 173) and sends
\* its GET (line 95).
SaveFetchStation ==
    /\ pc = "station_fetch"
    /\ station_key' = StationOrder[idx]
    /\ outstanding' = outstanding + 1
    /\ http_log' = Append(http_log, <<"GET", station_key'>>)
    /\ pc' = "station_answer"
    /\ UNCHANGED <<caller, exc, ret, sliceVars, tokenVars, now, idx, response,
                   result, fetches, mergeVars, diskVars, runs, mergeRunVars,
                   granularity, script, sleeps, all_results, stations>>

\* The API answers, fetch_station_data returns its dict, which is kept under
\* the station's key (line 174), and the loop goes on; after the last
\* station fetch_all_stations_data returns (line 176).
SaveStationAnswer ==
    /\ pc = "station_answer"
    /\ response' = script[idx]
    /\ outstanding' = outstanding - 1
    /\ all_results' =
          [sk \in DOMAIN all_results \cup {station_key} |->
              IF sk = station_key THEN StationResult(response', granularity)
              ELSE all_results[sk]]
    /\ IF idx < Len(StationOrder)
       THEN idx' = idx + 1 /\ pc' = "station_fetch"
       ELSE idx' = idx /\ pc' = "weather_write"
    /\ UNCHANGED <<caller, exc, ret, sliceVars, tokenVars, now, result,
                   http_log, fetches, mergeVars, diskVars, runs, mergeRunVars,
                   station_key, granularity, script, sleeps, stations>>

\* The loop of lines 255-284 writes one file per station whose result is a
\* success with a non-empty table, making save_dir if missing, and save_data
\* returns successful_saves.
WeatherWriteFiles ==
    /\ pc = "weather_write"
    /\ files' = WriteStations(files, all_results, granularity, start_date, 1)
    /\ ret' = SuccessfulSaves(all_results, granularity, start_date)
    /\ save_dir_exists' = (save_dir_exists \/ ret' > 0)
    /\ pc' = "returned"
    /\ UNCHANGED <<caller, exc, sliceVars, tokenVars, now, fetchVars,
                   mergeVars, runs, auxVars>>

\* The station added before or between the save_data runs: the new key.
SaveCustomStations == {c \in CustomStations : c.key = "nice"}

NextWeatherSave ==
    \/ /\ \/ pc = "idle"
          \/ pc = "returned" /\ caller \in {"add_custom_station", "weather_save_data"}
       /\ \E d \in SaveDayRanges, g \in Granularities :
             \E sc \in SaveScripts(g) : WeatherSaveData(d[1], d[2], g, sc)
    \/ /\ pc \in {"idle", "returned"}
       /\ \E c \in SaveCustomStations :
             AddCustomStation(c.key, c.lat, c.lon, c.name)
    \/ SaveFetchStation
    \/ SaveStationAnswer
    \/ WeatherWriteFiles

\* The two collectors side by side: from construction either save_data of
\* the RTE collector or save_data of the weather collector is run.
NextSave ==
    \/ NextRTE
    \/ NextWeatherSave

SpecSave == InitRTE /\ [][NextSave]_vars
----------------------------------------------------------------------------
(* Claims about the merge, checked under SpecMerge.                        *)

\* The production types of a list of parts.
TypesOf(ps) == UNION {DOMAIN ps[i] : i \in 1..Len(ps)}

\* The arrays named k of production type pt in the parts ps, joined in the
\* order of the list; a part without the type adds nothing.
RECURSIVE JoinedArrays(_, _, _)
JoinedArrays(ps, pt, k) ==
    IF ps = <<>> THEN <<>>
    ELSE (IF pt \in DOMAIN Head(ps) THEN Head(ps)[pt][k] ELSE <<>>)
            \o JoinedArrays(Tail(ps), pt, k)

\* C3: the merge of a non-empty list of parts ends without error, and for
\* every production type of any part its 'start', 'end' and 'values' arrays
\* are the concatenation of the type's arrays in slice order, a type missing
\* from earlier parts counting as empty there.
C3_MergeConcatenates ==
    (caller = "merge" /\ merge_stage = 1 /\ merge_in # <<>>) =>
      /\ pc # "crashed"
      /\ (pc = "merged" =>
            /\ DOMAIN data = TypesOf(merge_in)
            /\ \A pt \in DOMAIN data :
                  /\ data[pt].start = JoinedArrays(merge_in, pt, "start")
                  /\ data[pt].end = JoinedArrays(merge_in, pt, "end")
                  /\ data[pt].values = JoinedArrays(merge_in, pt, "values"))

\* The example of the claim: SOLAR with two observations, then SOLAR with
\* one, then WIND alone with one, merged.
C3_Witness ==
    /\ caller = "merge" /\ merge_stage = 1 /\ pc = "merged"
    /\ Len(merge_in) = 3
    /\ DOMAIN merge_in[1] = {"SOLAR"} /\ Len(merge_in[1]["SOLAR"].start) = 2
    /\ DOMAIN merge_in[2] = {"SOLAR"} /\ Len(merge_in[2]["SOLAR"].start) = 1
    /\ DOMAIN merge_in[3] = {"WIND"} /\ Len(merge_in[3]["WIND"].start) = 1
    /\ Len(data["SOLAR"].values) = 3
    /\ Len(data["WIND"].values) = 1

\* C9: merging the whole list [A, B, C] gives what merging [A, B] and then
\* merging that result with C gives.
C9_MergeAssociative ==
    (caller = "merge" /\ pc = "returned") => ret = merged_all

\* Three parts with keys disjoint between the first and the last have been
\* merged both ways.
C9_Witness ==
    /\ caller = "merge" /\ pc = "returned"
    /\ Len(merge_in) = 3
    /\ DOMAIN merge_in[1] = {"SOLAR"}
    /\ DOMAIN merge_in[2] = {"SOLAR", "WIND"}
    /\ DOMAIN merge_in[3] = {"WIND"}
    /\ ret = merged_all
    /\ Len(ret["WIND"].values) >= 2

----------------------------------------------------------------------------
(* Claims about the RTE pipeline, checked under SpecRTE.                   *)

\* result.get('success') as the callers read it.
GetSuccess(res) == "success" \in res.keys /\ res.success

\* C2: a slice whose fetch failed does not abort save_data: parse_result
\* returns an empty series for it and the loop goes on to the next slice.
C2_FailedSliceDoesNotAbort ==
    (caller = "save_data" /\ result.keys # {} /\ ~GetSuccess(result)) =>
      /\ pc # "crashed"
      /\ (pc = "fetch_data" => parts[Len(parts)] = <<>>)

\* The claim's words for the token state in which an exchange is due: no
\* token stored (None or the empty string), or now >= expires_at.
NoUsableToken ==
    \/ access_token = NoneToken
    \/ access_token = ""
    \/ token_expires_at = NoneDate
    \/ now >= token_expires_at

\* The running fetch_data has sent a token request.
PostedForSlice == \E i \in 1..Len(http_log) : http_log[i] = <<"POST", idx>>

\* C6: ensure_valid_token exchanges a token exactly when none is stored or
\* now >= expires_at, and otherwise returns true without a request; after an
\* exchange answered 200 the stored token is the response's access_token and
\* expires_at = now + expires_in, expires_in being 7200 when omitted.
C6_TokenExchange ==
    /\ (pc = "token_wait" => NoUsableToken)
    /\ ((pc = "data_wait" /\ ~PostedForSlice) => ~NoUsableToken)
    /\ ((pc = "data_wait" /\ PostedForSlice) =>
          /\ response.status = 200
          /\ access_token = response.access_token
          /\ token_expires_at =
                now + (IF response.expires_in = Absent THEN 7200
                       ELSE response.expires_in))

\* The token expired during the first slice and the second fetch exchanged a
\* new one, the server omitting expires_in.
C6_Witness ==
    /\ pc = "data_wait"
    /\ http_log = <<<<"POST", 1>>, <<"GET", 1>>, <<"POST", 2>>, <<"GET", 2>>>>
    /\ response.expires_in = Absent
    /\ access_token = "tokA"
    /\ token_expires_at = now + 7200

\* C7: every failed fetch is returned as a dict whose success flag is
\* present and false, with an error detail.
C7_FailureCarriesSuccessFalse ==
    (caller = "save_data" /\ pc = "parse_result" /\ ~GetSuccess(result)) =>
      /\ "success" \in result.keys
      /\ result.success = FALSE
      /\ "error" \in result.keys

\* The order of the phases of one save_data call that the code and the claim
\* agree on: one request at a time, slice idx is fetched and parsed while
\* exactly the idx - 1 earlier slices are parsed, the requests are sent in
\* slice order, and merging, writing and the end come after the last parse.
C10_CommonOrder ==
    caller = "save_data" =>
      /\ outstanding \in {0, 1}
      /\ (outstanding = 1 <=> pc \in {"token_wait", "data_wait"})
      /\ (pc \in {"fetch_data", "token_wait", "data_wait", "parse_result"} =>
            /\ idx \in 1..Len(dates)
            /\ Len(parts) = idx - 1)
      /\ \A i \in 1..Len(http_log) :
            /\ http_log[i][2] \in 1..idx
            /\ (i < Len(http_log) => http_log[i][2] <= http_log[i + 1][2])
      /\ (pc \in {"merge", "merge_loop", "write", "done"} =>
            Len(parts) = Len(dates))
      /\ (pc \in {"write", "done"} => merge_i > Len(parts))

\* Slicing comes first: while slice_dates runs no request has been sent, and
\* a request (the token exchange too) is sent only with the slices made.
C10_SlicingFirst ==
    caller = "save_data" =>
      /\ (pc = "slice_dates" => http_log = <<>> /\ outstanding = 0)
      /\ (pc \in {"token_wait", "data_wait"} => dates # <<>> /\ ~SliceDatesCond)

\* A file changes only in the step from the writing phase to the end, with
\* the merge loop over.
C10_WriteStep ==
    files' # files => (pc = "write" /\ merge_i > Len(parts) /\ pc' = "done")

\* C10 (amended): IDLE, SLICING, then per slice in ascending order
\* AUTHENTICATING (only without a usable token), FETCHING, PARSING, then
\* MERGING, WRITING, DONE.
C10_PhaseOrder ==
    [](C10_CommonOrder /\ C10_SlicingFirst) /\ [][C10_WriteStep]_vars

\* C10 (as claimed): the same order with AUTHENTICATING before SLICING, so
\* that a token exchange is in flight only before any slice is made.
C10_AuthBeforeSlicing ==
    /\ C10_CommonOrder
    /\ (caller = "save_data" /\ pc = "token_wait" => dates = <<>>)

\* A call over two slices is done: the token was exchanged in the first
\* fetch, both slices were fetched in order, and a file was written.
C10_Witness ==
    /\ caller = "save_data" /\ pc = "done"
    /\ Len(dates) = 2
    /\ http_log = <<<<"POST", 1>>, <<"GET", 1>>, <<"GET", 2>>>>
    /\ DOMAIN files # {}


\* The three arrays of every production type of the dict d are equally long.
EqualLengths(d) ==
    \A pt \in DOMAIN d :
        /\ Len(d[pt].start) = Len(d[pt].end)
        /\ Len(d[pt].end) = Len(d[pt].values)

\* The array named k of production type pt in the dict d, empty when d has
\* not the type.
ArrayOf(d, pt, k) == IF pt \in DOMAIN d THEN d[pt][k] ELSE <<>>

ArrayNames == {"start", "end", "values"}

\* Every parsed slice and the merged dict have, per production type, three
\* arrays of one length.
C11_ArraysEquallyLong ==
    caller = "save_data" =>
      /\ \A i \in 1..Len(parts) : EqualLengths(parts[i])
      /\ EqualLengths(data)

\* A parse_result call that returns adds one part holding, for every
\* production type of the response, one element per observation of the type.
C11_ParseStep ==
    (pc = "parse_result" /\ pc' # "crashed") =>
      LET items == result.data.items
          part == parts'[Len(parts')]
      IN /\ Len(parts') = Len(parts) + 1
         /\ DOMAIN part = {items[i].production_type : i \in 1..Len(items)}
         /\ \A i \in 1..Len(items) :
               Len(part[items[i].production_type].values) = Len(items[i].values)

\* A step of the merge loop leaves, for every production type and array, the
\* merged array as it was, followed by the array of the part merged: the
\* elements of earlier slices stay in front, in their order, and nothing is
\* dropped, deduplicated or inserted.
C11_MergeStep ==
    pc = "merge_loop" =>
      /\ DOMAIN data' = DOMAIN data \cup DOMAIN parts[merge_i]
      /\ \A pt \in DOMAIN data', k \in ArrayNames :
            data'[pt][k] = ArrayOf(data, pt, k) \o ArrayOf(parts[merge_i], pt, k)

\* C11: after every parse_result call and after every step of the merge of
\* save_data the 'start', 'end' and 'values' arrays of each production type
\* are equally long, and the merged arrays keep the elements of earlier
\* slices before those of later slices, none dropped, deduplicated or
\* inserted.
C11_EqualLengthsNoDedup ==
    []C11_ArraysEquallyLong /\ [][C11_ParseStep /\ C11_MergeStep]_vars

\* Two slices were parsed and merged: both reported the value 10 for SOLAR at
\* different hours, and the merged arrays hold both, the first slice's first.
C11_Witness ==
    /\ caller = "save_data" /\ pc = "write"
    /\ Len(parts) = 2
    /\ "SOLAR" \in DOMAIN parts[2]
    /\ data["SOLAR"].values = <<10, 10>>
    /\ Len(data["SOLAR"].start) = 2
    /\ data["SOLAR"].start[1] < data["SOLAR"].start[2]
    /\ data["SOLAR"].start[2] = parts[2]["SOLAR"].start[1]

\* The token endpoint's answer r is a failed exchange in the claim's words:
\* a network exception or a status other than 200.
ExchangeFailed(r) == r.kind = "exception" \/ (r.kind = "http" /\ r.status # 200)

\* C14: when the token exchange fails (non-200 answer or network exception)
\* ensure_valid_token returns false without raising and without another
\* token request, access_token and token_expires_at stay as they were, and
\* the enclosing fetch_data returns without sending a data request.
C14_FailedExchangeStep ==
    (pc = "token_wait" /\ ExchangeFailed(response')) =>
      /\ access_token' = access_token
      /\ token_expires_at' = token_expires_at
      /\ http_log' = http_log
      /\ outstanding' = 0
      /\ exc' = "none"
      /\ pc' = "parse_result"
      /\ result'.keys = {"error"}

C14_FailedExchangeLeavesToken == [][C14_FailedExchangeStep]_vars

\* The token expired during the first slice and the exchange of the second
\* fetch_data was answered 401: the expired token is still stored, and the
\* call returned after its token request, with no GET for the second slice.
C14_Witness ==
    /\ caller = "save_data" /\ pc = "parse_result" /\ idx = 2
    /\ response.kind = "http" /\ response.status = 401
    /\ access_token = "tokA"
    /\ token_expires_at # NoneDate /\ now >= token_expires_at
    /\ http_log[Len(http_log)] = <<"POST", 2>>
    /\ "success" \notin result.keys
----------------------------------------------------------------------------
(* Claims about the slicers, checked under SpecSlice.                      *)

\* C1: for start <= end and step > 0, slice_dates returns at least one
\* window; the first starts at start, each window ends where the next one
\* starts, the starts ascend, no window is wider than step, the last window
\* ends at or after end (so the union covers [start, end]), and a range
\* shorter than step gives exactly one window.
C1_SliceDatesWindows ==
    (pc = "returned" /\ caller = "slice_dates"
        /\ start_date <= end_date /\ delta > 0) =>
      /\ Len(ret) >= 1
      /\ ret[1][1] = start_date
      /\ \A i \in 1..Len(ret) :
            /\ ret[i][1] < ret[i][2]
            /\ ret[i][2] - ret[i][1] <= delta
      /\ \A i \in 1..(Len(ret) - 1) :
            /\ ret[i][2] = ret[i + 1][1]
            /\ ret[i][1] < ret[i + 1][1]
      /\ ret[Len(ret)][2] >= end_date
      /\ (end_date - start_date < delta => Len(ret) = 1)

\* A call over a range longer than the step has returned several windows.
C1_Witness ==
    /\ pc = "returned" /\ caller = "slice_dates"
    /\ start_date < end_date /\ delta > 0
    /\ end_date - start_date > delta
    /\ Len(ret) >= 2

\* C5: slice_dates called with a step <= 0 produces no slice and ends with a
\* ConfigurationError.
C5_NonPositiveStepRaises ==
    (caller = "slice_dates" /\ delta <= 0) =>
      /\ dates = <<>>
      /\ (pc = "slice_dates" \/ exc = "ConfigurationError")

\* C8: for start == end (and a positive step) each slicer returns exactly
\* one slice.
C8_ZeroLengthOneSlice ==
    (pc = "returned" /\ start_date = end_date /\ delta > 0) => Len(ret) = 1

----------------------------------------------------------------------------
(* Claims about the weather fetch, checked under SpecWeather.              *)

\* C4: a weather fetch answered 429 and then, on retry, 200 returns
\* success = true with the second answer's payload, after exactly one
\* cooldown sleep and exactly one retry.
C4_RetryAfter429 ==
    (pc = "returned" /\ caller = "fetch_station_data"
        /\ station_key \in Stations
        /\ script[1].kind = "http" /\ script[1].status = 429
        /\ script[2].kind = "http" /\ script[2].status = 200) =>
      /\ "success" \in ret.keys /\ ret.success
      /\ ret.data = script[2].json
      /\ sleeps = 1
      /\ Len(http_log) = 2

----------------------------------------------------------------------------
(* Claims about both fetchers, checked under SpecFetchers.                 *)

\* The requests of kind m ("GET" to the API, "POST" to the token endpoint)
\* that the fetch_data call for slice i has sent.
RequestsOfCall(m, i) ==
    Cardinality({j \in 1..Len(http_log) : http_log[j] = <<m, i>>})

\* C12 (as claimed): every fetcher call that has returned has issued exactly
\* one HTTP request, whatever the token state and the response.
C12_ExactlyOneRequest ==
    /\ (caller = "save_data" /\ pc = "parse_result") =>
          RequestsOfCall("GET", idx) + RequestsOfCall("POST", idx) = 1
    /\ (caller = "fetch_station_data" /\ pc = "returned") =>
          Len(http_log) = 1

\* C12 (amended): a fetcher call issues at most one request to its API.
\* fetch_data sends its GET exactly once, after a token request of its own
\* only if that was answered 200 with a token, and sends none exactly when
\* it returns the token failure, after its one token request; of the
\* earlier, parsed slices each had its one GET.  fetch_station_data sends
\* exactly one GET for a station it knows, whatever the answer, and none for
\* another station.
C12_AtMostOneDataRequest ==
    /\ caller = "save_data" =>
          /\ \A i \in 1..Len(dates) :
                /\ RequestsOfCall("GET", i) <= 1
                /\ RequestsOfCall("POST", i) <= 1
                /\ (i < idx => RequestsOfCall("GET", i) = 1)
          /\ (pc = "data_wait" => RequestsOfCall("GET", idx) = 1)
          /\ ((pc = "data_wait" /\ RequestsOfCall("POST", idx) = 1) =>
                response.kind = "http" /\ response.status = 200
                    /\ response.has_token)
          /\ (pc = "token_wait" =>
                RequestsOfCall("GET", idx) = 0 /\ RequestsOfCall("POST", idx) = 1)
          /\ (pc = "parse_result" =>
                IF result = AuthFailureResult
                THEN RequestsOfCall("GET", idx) = 0
                        /\ RequestsOfCall("POST", idx) = 1
                ELSE RequestsOfCall("GET", idx) = 1)
    /\ caller = "fetch_station_data" =>
          /\ Len(http_log) = (IF station_key \in Stations THEN 1 ELSE 0)
          /\ (pc = "returned" /\ station_key \in Stations =>
                ret = StationResult(script[1], granularity))

\* The second fetch_data call of a run has returned the token failure: its
\* token request failed and it sent no GET, the first call having sent a
\* token request and a GET.
C12_Witness ==
    /\ caller = "save_data" /\ pc = "parse_result" /\ idx = 2
    /\ result = AuthFailureResult
    /\ http_log = <<<<"POST", 1>>, <<"GET", 1>>, <<"POST", 2>>>>
----------------------------------------------------------------------------
(* Claims about the writers, checked under SpecSave.                       *)

\* The file of production type pt holds exactly the merged series of the
\* run: a header row, then one row per observation (with its index).
RteFileHoldsSeries(pt) ==
    /\ <<pt, ".csv">> \in DOMAIN files
    /\ LET f == files[<<pt, ".csv">>]
       IN /\ f.header = <<"", "start", "end", "values">>
          /\ Len(f.rows) = Len(data[pt].start)
          /\ \A i \in 1..Len(f.rows) :
                f.rows[i] = <<i - 1, data[pt].start[i], data[pt].end[i],
                              data[pt].values[i]>>

\* The station's result of the run has usable data: a success with at
\* least one data point of the granularity asked for.
Usable(sk) ==
    /\ "success" \in all_results[sk].keys /\ all_results[sk].success
    /\ all_results[sk].data_points > 0

\* The file of station sk holds exactly the station's table of the run: a
\* header row, then one row per data point, at the times of the run's
\* request and carrying the station's key and name.
WeatherFileHoldsSeries(sk) ==
    /\ <<sk, "_", granularity, ".csv">> \in DOMAIN files
    /\ LET f == files[<<sk, "_", granularity, ".csv">>]
       IN /\ Len(f.header) = 4 + Len(ParamsOf(granularity))
          /\ Len(f.rows) = all_results[sk].data_points
          /\ \A k \in 1..Len(f.rows) :
                /\ f.rows[k][1] =
                      (IF granularity = "hourly"
                       THEN start_date * Day + (k - 1) * Hour
                       ELSE (start_date + k - 1) * Day)
                /\ f.rows[k][3] = sk
                /\ f.rows[k][4] = StationName(sk)
                /\ Len(f.rows[k]) = Len(f.header)

\* C13: after a save_data run of either collector every key of the output
\* (production type, or station with usable data) has its file, named from
\* the key (<production_type>.csv, <station>_<granularity>.csv), holding
\* exactly that run's series for the key: a file of that name left by an
\* earlier run is replaced, not appended to, so that after a second run the
\* file holds the second run's rows only.
C13_OneFilePerKeyOverwritten ==
    /\ (caller = "save_data" /\ pc = "done") =>
          \A pt \in DOMAIN data : RteFileHoldsSeries(pt)
    /\ (caller = "weather_save_data" /\ pc = "returned") =>
          /\ DOMAIN all_results = Stations
          /\ \A sk \in Stations : Usable(sk) => WeatherFileHoldsSeries(sk)
          /\ ret = Cardinality({sk \in Stations : Usable(sk)})

\* A second weather run, for 2020-10-25, has returned after a first run with
\* the default dates and the same granularity: Brest failed in the second
\* run and keeps the two rows of the first run, Paris and Lyon hold the one
\* row of the second run.
C13_Witness ==
    /\ caller = "weather_save_data" /\ pc = "returned" /\ runs = 2
    /\ granularity = "hourly" /\ start_date = DSTEndDay
    /\ ~Usable("brest") /\ Usable("paris") /\ Usable("lyon")
    /\ <<"brest", "_", "hourly", ".csv">> \in DOMAIN files
    /\ Len(files[<<"brest", "_", "hourly", ".csv">>].rows) = 2
    /\ files[<<"brest", "_", "hourly", ".csv">>].rows[1][1] < DSTEndDay * Day
    /\ Len(files[<<"paris", "_", "hourly", ".csv">>].rows) = 1
    /\ Len(files[<<"lyon", "_", "hourly", ".csv">>].rows) = 1
    /\ files[<<"paris", "_", "hourly", ".csv">>].rows[1][1] = DSTEndDay * Day
====
